---- MODULE Spec2Model ----
(***************************************************************************)
(* GovInfo API: the configuration loader (internal/config), the entrypoint *)
(* (cmd/govinfo/main.go) and the HTTP server (internal/server/http.go).    *)
(*                                                                         *)
(* Strings are TLA+ strings.  An environment maps every variable name to   *)
(* its value or to Unset.  The process is one main thread (pc) plus the    *)
(* request handlers net/http runs concurrently, counted by the statement   *)
(* they are at (atLog, atWrite).                                           *)
(***************************************************************************)
EXTENDS Integers, FiniteSets, Sequences, TLC

VARIABLES
    env,            \* process environment (os.Getenv / os.Setenv)
    dotenv,         \* the .env file in the working directory
    otherListener,  \* port another process listens on, or NoPort
    budget,         \* number of requests the clients send in this run
    pc,             \* statement main is at
    cfg,            \* *config.Config held by main
    logger,         \* main's local logger (main.go:17)
    addr,           \* Start's addr (http.go:20)
    startErr,       \* error returned by server.Start
    exitCode,       \* <<status>> once the process has exited, <<>> before
    stdLog,         \* entries written by the standard log package
    zapLog,         \* entries written by the zap logger, per message
    sampler,        \* zap sampler: events per message in the current tick
    nDispatched,    \* requests handed to a handler by net/http
    atLog,          \* handlers about to run http.go:16
    atWrite,        \* handlers about to run http.go:17
    responses,      \* distinct responses written by the /health handler
    otherResponses  \* distinct responses to requests other than GET /health

vars == <<env, dotenv, otherListener, budget, pc, cfg, logger, addr, startErr,
          exitCode, stdLog, zapLog, sampler, nDispatched, atLog, atWrite,
          responses, otherResponses>>

(***************************************************************************)
(* Bounds                                                                  *)
(***************************************************************************)
NumVals == 1        \* distinct non-empty values a variable may hold
MaxSet == 2         \* variables set in the process environment
MaxFile == 1        \* entries of the .env file
MaxReq == 2         \* requests per run of the lifecycle specification
MaxInflight == 2    \* handlers running at the same time
MaxBurst == 101     \* requests per run of the burst specification

(***************************************************************************)
(* Environment and .env file                                               *)
(***************************************************************************)
Unset == "<unset>"

Keys == {"PORT", "DATABASE_URL", "TWILIO_SID", "TWILIO_TOKEN",
         "TWILIO_ACCOUNT_SID", "TWILIO_AUTH_TOKEN"}

NonEmpty == {ToString(9089 + i) : i \in 1..NumVals}

Values == {""} \cup NonEmpty

EnvVals == Values \cup {Unset}

NoVars == [k \in Keys |-> Unset]

SetKeys(e) == {k \in Keys : e[k] # Unset}

Envs == {e \in [Keys -> EnvVals] : Cardinality(SetKeys(e)) <= MaxSet}

Files == {[status |-> "absent", vars |-> NoVars],
          [status |-> "malformed", vars |-> NoVars]}
         \cup {[status |-> "ok", vars |-> f] :
                 f \in {g \in [Keys -> EnvVals] : Cardinality(SetKeys(g)) <= MaxFile}}

\* os.Getenv: the value, "" when the variable is not present.
Getenv(e, key) == IF e[key] = Unset THEN "" ELSE e[key]

\* godotenv.Load(): reads .env and sets every variable of the file that the
\* process environment does not hold yet; an absent or unparsable file leaves
\* the environment alone.  The error is discarded (part_001:23).
GodotenvLoad(e, f) ==
    IF f.status # "ok" THEN e
    ELSE [k \in Keys |-> IF e[k] = Unset THEN f.vars[k] ELSE e[k]]

\* getEnv without its fallback branch.
getEnv_NoFallback(e, key, fallback) == Getenv(e, key)

getEnv(e, key, fallback) ==
    LET val == Getenv(e, key)
    IN  IF val = "" THEN fallback ELSE val

(***************************************************************************)
(* Configuration                                                           *)
(***************************************************************************)
NilLogger == "nil"
GlobalLogger == "package-level logger"
ZapLogger == "zap production logger"

ZeroConfig == [Port |-> "", DBUrl |-> "", TwilioSID |-> "", TwilioToken |-> "",
               Logger |-> NilLogger]

\* Load substituting a default for an unset DATABASE_URL.
Load_DefaultDB(e) ==
    [Port        |-> getEnv(e, "PORT", "8080"),
     DBUrl       |-> getEnv(e, "DATABASE_URL", "postgres://localhost"),
     TwilioSID   |-> Getenv(e, "TWILIO_SID"),
     TwilioToken |-> Getenv(e, "TWILIO_TOKEN"),
     Logger      |-> NilLogger]

\* config.Load on the environment e (after the .env file was applied).
Load(e) == [Port        |-> getEnv(e, "PORT", "8080"),
            DBUrl       |-> Getenv(e, "DATABASE_URL"),
            TwilioSID   |-> Getenv(e, "TWILIO_SID"),
            TwilioToken |-> Getenv(e, "TWILIO_TOKEN"),
            Logger      |-> NilLogger]

(***************************************************************************)
(* Logging                                                                 *)
(***************************************************************************)
MsgStarting == "Starting GovInfo API"
MsgListening == "Server listening"
MsgHealth == "Health check called"
MsgFailed == "server failed"
Msgs == {MsgStarting, MsgListening, MsgHealth, MsgFailed}

\* zap.NewProduction() samples: per tick (one second) and message, the first
\* SamplingInitial events are written and then every SamplingThereafter-th.
SamplingInitial == 100
SamplingThereafter == 100

SamplerPasses(n) ==
    \/ n <= SamplingInitial
    \/ (n - SamplingInitial) % SamplingThereafter = 0

\* One call of logger.Info / logger.Fatal with message m.
ZapWrite(m) ==
    /\ sampler' = [sampler EXCEPT ![m] = @ + 1]
    /\ zapLog' = [zapLog EXCEPT ![m] = IF SamplerPasses(sampler[m] + 1)
                                       THEN @ + 1 ELSE @]

(***************************************************************************)
(* Initial states                                                          *)
(***************************************************************************)
NoPort == "<none>"
NoError == "<nil>"
NoExit == <<>>
Ports == {"8080"} \cup NonEmpty

Fresh ==
    /\ pc = "load"
    /\ cfg = ZeroConfig
    /\ logger = NilLogger
    /\ addr = ""
    /\ startErr = NoError
    /\ exitCode = NoExit
    /\ stdLog = 0
    /\ zapLog = [m \in Msgs |-> 0]
    /\ sampler = [m \in Msgs |-> 0]
    /\ nDispatched = 0
    /\ atLog = 0
    /\ atWrite = 0
    /\ responses = {}
    /\ otherResponses = {}

\* The variables Load reads; no other variable is read anywhere in the run.
LoadKeys == {"PORT", "DATABASE_URL", "TWILIO_SID", "TWILIO_TOKEN"}

RunEnvs == {e \in Envs : SetKeys(e) \subseteq LoadKeys}

\* Process start of the lifecycle specification: any environment over the
\* variables Load reads, no .env.
Init ==
    /\ env \in RunEnvs
    /\ dotenv = [status |-> "absent", vars |-> NoVars]
    /\ otherListener \in {NoPort} \cup Ports
    /\ budget = MaxReq
    /\ Fresh

\* The burst specification starts where the lifecycle has brought a process
\* with an empty environment to serving on the default port, more than a tick
\* after startup, with clients about to send MaxBurst requests.
InitBurst ==
    /\ env = NoVars
    /\ dotenv = [status |-> "absent", vars |-> NoVars]
    /\ otherListener = NoPort
    /\ budget = MaxBurst
    /\ pc = "serving"
    /\ cfg \in {[Load(NoVars) EXCEPT !.Logger = l] : l \in {NilLogger, GlobalLogger}}
    /\ logger = ZapLogger
    /\ addr = ":8080"
    /\ startErr = NoError
    /\ exitCode = NoExit
    /\ stdLog = 0
    /\ zapLog = [m \in Msgs |-> IF m \in {MsgStarting, MsgListening} THEN 1 ELSE 0]
    /\ sampler = [m \in Msgs |-> 0]
    /\ nDispatched = 0
    /\ atLog = 0
    /\ atWrite = 0
    /\ responses = {}
    /\ otherResponses = {}

\* Process start of the loader specification: any environment, any .env.
InitLoad ==
    /\ env \in Envs
    /\ dotenv \in Files
    /\ otherListener = NoPort
    /\ budget = 0
    /\ Fresh

(***************************************************************************)
(* main (cmd/govinfo/main.go)                                              *)
(***************************************************************************)
\* Load treating a failed godotenv.Load as fatal.
Main_Load_EnvFileRequired ==
    /\ pc = "load"
    /\ IF dotenv.status = "ok"
       THEN /\ env' = GodotenvLoad(env, dotenv)
            /\ cfg' = Load(env')
            /\ pc' = "assign"
            /\ UNCHANGED <<stdLog, exitCode>>
       ELSE /\ stdLog' = stdLog + 1
            /\ exitCode' = <<1>>
            /\ pc' = "exited"
            /\ UNCHANGED <<env, cfg>>
    /\ UNCHANGED <<dotenv, otherListener, budget, logger, addr, startErr,
                   zapLog, sampler, nDispatched, atLog, atWrite, responses,
                   otherResponses>>

\* main.go:14  cfg := config.Load()
Main_Load ==
    /\ pc = "load"
    /\ env' = GodotenvLoad(env, dotenv)
    /\ cfg' = Load(env')
    /\ pc' = "assign"
    /\ UNCHANGED <<dotenv, otherListener, budget, logger, addr, startErr,
                   exitCode, stdLog, zapLog, sampler, nDispatched, atLog,
                   atWrite, responses,
                   otherResponses>>

\* main.go:15  cfg.Logger = logger.  The local logger is declared on line 17,
\* so the name can only denote a package-level logger: unset, or one set up
\* elsewhere.  It never denotes the logger main constructs afterwards.
Main_Assign ==
    /\ pc = "assign"
    /\ \E l \in {NilLogger, GlobalLogger} : cfg' = [cfg EXCEPT !.Logger = l]
    /\ pc' = "newlogger"
    /\ UNCHANGED <<env, dotenv, otherListener, budget, logger, addr, startErr,
                   exitCode, stdLog, zapLog, sampler, nDispatched, atLog,
                   atWrite, responses,
                   otherResponses>>

\* main reporting a failed zap.NewProduction() and carrying on without exit.
Main_NewLogger_ErrorNotFatal ==
    /\ pc = "newlogger"
    /\ \/ /\ logger' = ZapLogger
          /\ UNCHANGED stdLog
       \/ /\ stdLog' = stdLog + 1
          /\ UNCHANGED logger
    /\ pc' = "info"
    /\ UNCHANGED <<env, dotenv, otherListener, budget, cfg, addr, startErr,
                   exitCode, zapLog, sampler, nDispatched, atLog, atWrite,
                   responses,
                   otherResponses>>

\* main.go:17-20  logger, err := zap.NewProduction(); log.Fatalf on error.
Main_NewLogger ==
    /\ pc = "newlogger"
    /\ \/ /\ logger' = ZapLogger
          /\ pc' = "info"
          /\ UNCHANGED <<exitCode, stdLog>>
       \/ /\ stdLog' = stdLog + 1
          /\ exitCode' = <<1>>
          /\ pc' = "exited"
          /\ UNCHANGED logger
    /\ UNCHANGED <<env, dotenv, otherListener, budget, cfg, addr, startErr,
                   zapLog, sampler, nDispatched, atLog, atWrite, responses,
                   otherResponses>>

\* main.go:23  logger.Info("Starting GovInfo API", ...)
Main_Info ==
    /\ pc = "info"
    /\ ZapWrite(MsgStarting)
    /\ pc' = "start"
    /\ UNCHANGED <<env, dotenv, otherListener, budget, cfg, logger, addr,
                   startErr, exitCode, stdLog, nDispatched, atLog, atWrite,
                   responses,
                   otherResponses>>

\* main starting the server again after a listener error.
Main_AfterStart_Retry ==
    /\ pc = "returned"
    /\ ZapWrite(MsgFailed)
    /\ pc' = "start"
    /\ UNCHANGED <<env, dotenv, otherListener, budget, cfg, logger, addr,
                   startErr, exitCode, stdLog, nDispatched, atLog, atWrite,
                   responses,
                   otherResponses>>

\* main.go:25-27  Start has returned err: logger.Fatal writes the entry and
\* exits with status 1; with a nil error main returns and the process exits 0.
Main_AfterStart ==
    /\ pc = "returned"
    /\ IF startErr # NoError
       THEN /\ ZapWrite(MsgFailed)
            /\ exitCode' = <<1>>
       ELSE /\ exitCode' = <<0>>
            /\ UNCHANGED <<zapLog, sampler>>
    /\ pc' = "exited"
    /\ UNCHANGED <<env, dotenv, otherListener, budget, cfg, logger, addr,
                   startErr, stdLog, nDispatched, atLog, atWrite, responses,
                   otherResponses>>

(***************************************************************************)
(* server.Start (internal/server/http.go)                                  *)
(***************************************************************************)
\* fmt.Fprint in place of fmt.Fprintln.
Fprint(s) == s

\* fmt.Fprintln(w, s): the operands followed by a newline.
Fprintln(s) == s \o "\n"

StatusOK == 200

\* Start listening on the default port whatever the Configuration holds.
Start_Setup_DefaultPort ==
    /\ pc = "start"
    /\ addr' = ":8080"
    /\ ZapWrite(MsgListening)
    /\ pc' = "listen"
    /\ UNCHANGED <<env, dotenv, otherListener, budget, cfg, logger, startErr,
                   exitCode, stdLog, nDispatched, atLog, atWrite, responses,
                   otherResponses>>

\* Start writing the address it listens on back into the Configuration.
Start_Setup_StoresAddr ==
    /\ pc = "start"
    /\ addr' = ":" \o cfg.Port
    /\ cfg' = [cfg EXCEPT !.Port = addr']
    /\ ZapWrite(MsgListening)
    /\ pc' = "listen"
    /\ UNCHANGED <<env, dotenv, otherListener, budget, logger, startErr,
                   exitCode, stdLog, nDispatched, atLog, atWrite, responses,
                   otherResponses>>

\* http.go:13-21  router, route GET /health, addr, logger.Info.
Start_Setup ==
    /\ pc = "start"
    /\ addr' = ":" \o cfg.Port
    /\ ZapWrite(MsgListening)
    /\ pc' = "listen"
    /\ UNCHANGED <<env, dotenv, otherListener, budget, cfg, logger, startErr,
                   exitCode, stdLog, nDispatched, atLog, atWrite, responses,
                   otherResponses>>

\* The errors net.Listen can return for addr: the port is taken by another
\* listener, or the bind is refused for another reason (privileged port).
BindErrors(a) ==
    (IF otherListener # NoPort /\ a = ":" \o otherListener
     THEN {"address already in use"} ELSE {})
    \cup {"permission denied"}

\* A listener that shares the port (SO_REUSEPORT): the bind always succeeds.
CanBind_Shared(a) == TRUE

CanBind(a) == ~(otherListener # NoPort /\ a = ":" \o otherListener)

\* http.go:22  http.ListenAndServe binds addr: on success it serves and does
\* not return; on failure it returns the error, which Start returns.
Start_Listen ==
    /\ pc = "listen"
    /\ \/ /\ CanBind(addr)
          /\ pc' = "serving"
          /\ UNCHANGED startErr
       \/ /\ \E e \in BindErrors(addr) : startErr' = e
          /\ pc' = "returned"
    /\ UNCHANGED <<env, dotenv, otherListener, budget, cfg, logger, addr,
                   exitCode, stdLog, zapLog, sampler, nDispatched, atLog,
                   atWrite, responses,
                   otherResponses>>

\* A server that reports the end of its accept loop as success.
ServeError_Nil == NoError

\* What ListenAndServe returns when its accept loop fails: always non-nil.
ServeError == "accept: fatal listener error"

\* http.go:22  the accept loop fails while serving: ListenAndServe returns.
Serve_Fatal ==
    /\ pc = "serving"
    /\ startErr' = ServeError
    /\ pc' = "returned"
    /\ UNCHANGED <<env, dotenv, otherListener, budget, cfg, logger, addr,
                   exitCode, stdLog, zapLog, sampler, nDispatched, atLog,
                   atWrite, responses,
                   otherResponses>>

(***************************************************************************)
(* GET /health (http.go:15-18), one goroutine per request                  *)
(***************************************************************************)
Inflight == atLog + atWrite

\* Handler goroutines run from the moment ListenAndServe accepts their
\* request until the process exits; the return of ListenAndServe does not
\* stop them.
Alive == pc \in {"serving", "returned"}

\* Requests whose handler has written its response.
nResponses == nDispatched - Inflight

\* Calls of logger.Info("Health check called") made so far.
nHealthEvents == nDispatched - atLog

\* Requests received so far: those handed to the handler, and the distinct
\* ones the router answered itself.
nReceived == nDispatched + Cardinality(otherResponses)

\* net/http accepts a GET /health request and starts its handler.
Dispatch ==
    /\ pc = "serving"
    /\ nReceived < budget
    /\ Inflight < MaxInflight
    /\ nDispatched' = nDispatched + 1
    /\ atLog' = atLog + 1
    /\ UNCHANGED <<env, dotenv, otherListener, budget, pc, cfg, logger, addr,
                   startErr, exitCode, stdLog, zapLog, sampler, atWrite,
                   responses,
                   otherResponses>>

\* The handler without its log statement.
Handler_Log_Silent ==
    /\ Alive
    /\ atLog > 0
    /\ atLog' = atLog - 1
    /\ atWrite' = atWrite + 1
    /\ UNCHANGED <<env, dotenv, otherListener, budget, pc, cfg, logger, addr,
                   startErr, exitCode, stdLog, zapLog, sampler, nDispatched,
                   responses,
                   otherResponses>>

\* http.go:16  logger.Info("Health check called")
Handler_Log ==
    /\ Alive
    /\ atLog > 0
    /\ ZapWrite(MsgHealth)
    /\ atLog' = atLog - 1
    /\ atWrite' = atWrite + 1
    /\ UNCHANGED <<env, dotenv, otherListener, budget, pc, cfg, logger, addr,
                   startErr, exitCode, stdLog, nDispatched, responses,
                   otherResponses>>

\* The response of the handler: the first Write sends status 200.
HealthResponse == [status |-> StatusOK, body |-> Fprintln("OK")]

\* http.go:17  fmt.Fprintln(w, "OK"), then the handler returns.
Handler_Write ==
    /\ Alive
    /\ atWrite > 0
    /\ responses' = responses \cup {HealthResponse}
    /\ atWrite' = atWrite - 1
    /\ UNCHANGED <<env, dotenv, otherListener, budget, pc, cfg, logger, addr,
                   startErr, exitCode, stdLog, zapLog, sampler, nDispatched,
                   atLog, otherResponses>>

\* A tick of the sampler (one second) passes in the running process without
\* an event: the next event of every message starts a new count.
Tick ==
    /\ pc # "exited"
    /\ \E m \in Msgs : sampler[m] > 0
    /\ sampler' = [m \in Msgs |-> 0]
    /\ UNCHANGED <<env, dotenv, otherListener, budget, pc, cfg, logger, addr,
                   startErr, exitCode, stdLog, zapLog, nDispatched, atLog,
                   atWrite, responses,
                   otherResponses>>

(***************************************************************************)
(***************************************************************************)
(* Requests the router does not hand to the /health handler                *)
(***************************************************************************)
Methods == {"GET", "POST"}
Paths == {"/health", "/users/subscribe"}

\* A router registering the handler with r.HandleFunc, for every method.
Route_AnyMethod(method, path) ==
    IF path = "/health" THEN "handler" ELSE "not found"

\* http.go:13-18  chi.NewRouter() with the single route r.Get("/health", ...):
\* another method on /health is not allowed, every other path is not found.
Route(method, path) ==
    IF path = "/health"
    THEN IF method = "GET" THEN "handler" ELSE "method not allowed"
    ELSE "not found"

\* The router's own answers: http.NotFound, and chi's empty 405.
RouterResponse(rt) ==
    IF rt = "not found"
    THEN [status |-> 404, body |-> "404 page not found\n"]
    ELSE [status |-> 405, body |-> ""]

\* A request other than GET /health arrives while the server listens.  The
\* router answers it itself; were its route the handler, the handler would
\* log and answer it.
Dispatch_Other ==
    /\ pc = "serving"
    /\ nReceived < budget
    /\ \E method \in Methods, path \in Paths :
          /\ <<method, path>> # <<"GET", "/health">>
          /\ LET rt == Route(method, path)
                 rsp == IF rt = "handler" THEN HealthResponse
                        ELSE RouterResponse(rt)
             IN  /\ otherResponses' = otherResponses \cup
                        {[method |-> method, path |-> path,
                          status |-> rsp.status, body |-> rsp.body]}
                 /\ IF rt = "handler"
                    THEN ZapWrite(MsgHealth)
                    ELSE UNCHANGED <<zapLog, sampler>>
    /\ UNCHANGED <<env, dotenv, otherListener, budget, pc, cfg, logger, addr,
                   startErr, exitCode, stdLog, nDispatched, atLog, atWrite,
                   responses>>

(* Specifications                                                          *)
(***************************************************************************)
Next ==
    \/ Main_Load
    \/ Main_Assign
    \/ Main_NewLogger
    \/ Main_Info
    \/ Start_Setup
    \/ Start_Listen
    \/ Serve_Fatal
    \/ Main_AfterStart
    \/ Dispatch
    \/ Handler_Log
    \/ Handler_Write
    \/ Dispatch_Other
    \/ Tick

Spec == Init /\ [][Next]_vars

\* The loader alone, over every environment and .env file.
NextLoad == Main_Load

SpecLoad == InitLoad /\ [][NextLoad]_vars

\* The serving process under a burst of requests.
NextBurst ==
    \/ Dispatch
    \/ Handler_Log
    \/ Handler_Write
    \/ Tick
    \/ Serve_Fatal
    \/ Main_AfterStart

SpecBurst == InitBurst /\ [][NextBurst]_vars

(***************************************************************************)
(* Properties of config.Load (checked under SpecLoad)                      *)
(***************************************************************************)
Loaded == pc # "load"

\* C1 as stated: the port is the value of PORT whenever PORT is set, and
\* "8080" when it is unset.
C1_PortEqualsEveryValue ==
    Loaded => IF env["PORT"] # Unset
              THEN cfg.Port = env["PORT"]
              ELSE cfg.Port = "8080"

\* C1 amended: the port is the value of PORT when that value is not empty,
\* and "8080" when PORT is unset or set to the empty string.
C1_PortOrDefault ==
    Loaded => IF env["PORT"] \notin {Unset, ""}
              THEN cfg.Port = env["PORT"]
              ELSE cfg.Port = "8080"

C1_Witness ==
    /\ Loaded
    /\ env["PORT"] = ""
    /\ cfg.Port = "8080"

Configs == [Port : Values \cup {"8080"}, DBUrl : Values, TwilioSID : Values,
            TwilioToken : Values, Logger : {NilLogger}]

\* C5: Load has no failure path: in every environment, with the .env file
\* present, absent or unparsable, Load can run, and when it runs it returns a
\* Configuration; it returns no error and does not end the process.
C5_LoadNeverFails ==
    /\ [](pc = "load" => ENABLED Main_Load)
    /\ [][pc = "load" => /\ pc' = "assign"
                         /\ cfg' \in Configs
                         /\ exitCode' = NoExit
                         /\ stdLog' = stdLog]_vars

C5_Witness ==
    /\ pc = "assign"
    /\ dotenv.status = "malformed"
    /\ SetKeys(env) = {}
    /\ cfg = [ZeroConfig EXCEPT !.Port = "8080"]
    /\ exitCode = NoExit

\* C6: dbUrl, twilioSID and twilioToken are the values of DATABASE_URL,
\* TWILIO_SID and TWILIO_TOKEN, and the empty string when the variable is
\* unset: no default is substituted.
C6_FieldsFromEnv ==
    Loaded =>
        /\ cfg.DBUrl = (IF env["DATABASE_URL"] = Unset THEN "" ELSE env["DATABASE_URL"])
        /\ cfg.TwilioSID = (IF env["TWILIO_SID"] = Unset THEN "" ELSE env["TWILIO_SID"])
        /\ cfg.TwilioToken = (IF env["TWILIO_TOKEN"] = Unset THEN "" ELSE env["TWILIO_TOKEN"])

C6_Witness ==
    /\ Loaded
    /\ env["DATABASE_URL"] \in NonEmpty
    /\ cfg.DBUrl = env["DATABASE_URL"]
    /\ env["TWILIO_SID"] = Unset
    /\ cfg.TwilioSID = ""
    /\ env["TWILIO_TOKEN"] \in NonEmpty
    /\ cfg.TwilioToken = env["TWILIO_TOKEN"]

\* C7: with the variables the README documents, TWILIO_ACCOUNT_SID and
\* TWILIO_AUTH_TOKEN, set, the Configuration's Twilio account identifier and
\* auth token are the values of those two variables.
C7_ReadmeTwilioVars ==
    (/\ Loaded
     /\ env["TWILIO_ACCOUNT_SID"] # Unset
     /\ env["TWILIO_AUTH_TOKEN"] # Unset)
    => /\ cfg.TwilioSID = env["TWILIO_ACCOUNT_SID"]
       /\ cfg.TwilioToken = env["TWILIO_AUTH_TOKEN"]

(***************************************************************************)
(* Properties of the server lifecycle (checked under Spec)                 *)
(***************************************************************************)
\* C2 as stated: every GET /health response has status 200 and body OK.
C2_BodyIsOK ==
    \A r \in responses : r.status = 200 /\ r.body = "OK"

\* C2 amended: every GET /health response, whatever the Configuration and
\* whatever was served before, has status 200 and the body OK followed by a
\* newline.
C2_HealthAlways200OKLine ==
    /\ \A r \in responses : r.status = 200 /\ r.body = "OK\n"
    /\ nResponses > 0 => responses # {}

C2_Witness ==
    /\ pc = "serving"
    /\ nResponses = MaxReq
    /\ responses # {}
    /\ cfg.Port # "8080"
    /\ cfg.TwilioSID # ""
    /\ cfg.Logger = GlobalLogger

PortTaken ==
    /\ Loaded
    /\ otherListener # NoPort
    /\ cfg.Port = otherListener

\* C4: when another listener holds the configured port, the server never
\* listens and serves no request; Start returns an error, and main logs
\* "server failed" and exits with status 1.
C4_PortInUseFailsStartup ==
    PortTaken =>
        /\ pc # "serving"
        /\ nDispatched = 0
        /\ pc = "returned" => startErr # NoError
        /\ (pc = "exited" /\ logger = ZapLogger) =>
              /\ startErr # NoError
              /\ exitCode = <<1>>
              /\ zapLog[MsgFailed] = 1

C4_Witness ==
    /\ PortTaken
    /\ pc = "exited"
    /\ startErr = "address already in use"
    /\ exitCode = <<1>>
    /\ zapLog[MsgFailed] = 1

\* C8 as stated: once Load has returned, no step changes any field of the
\* Configuration.
C8_ConfigNeverChanges ==
    [][Loaded => cfg' = cfg]_vars

\* C8 amended: once Load has returned, no step changes port, dbUrl,
\* twilioSID or twilioToken; the logger handle is written once, by main's
\* assignment right after Load, and no later step of main, Start or the
\* handler changes any field.
C8_ConfigFixedAfterAssign ==
    [][Loaded => /\ cfg'.Port = cfg.Port
                 /\ cfg'.DBUrl = cfg.DBUrl
                 /\ cfg'.TwilioSID = cfg.TwilioSID
                 /\ cfg'.TwilioToken = cfg.TwilioToken
                 /\ pc # "assign" => cfg' = cfg]_vars

C8_Witness ==
    /\ pc = "exited"
    /\ nResponses > 0
    /\ cfg.Logger = GlobalLogger
    /\ cfg.DBUrl # ""

\* C9: Start does not return while the server listens without error; every
\* return of Start carries a non-nil error; and when Start has returned, main
\* logs "server failed" and ends the process with status 1.
C9_StartReturnsOnlyFatal ==
    /\ [](pc = "serving" => startErr = NoError)
    /\ [](pc = "returned" => startErr # NoError)
    /\ [][(pc = "returned" /\ pc' # pc) =>
              /\ pc' = "exited"
              /\ exitCode' = <<1>>
              /\ zapLog'[MsgFailed] = zapLog[MsgFailed] + 1]_vars

C9_Witness ==
    /\ pc = "exited"
    /\ startErr = ServeError
    /\ exitCode = <<1>>
    /\ zapLog[MsgFailed] = 1

ServerState ==
    CASE pc = "serving" -> "listening"
      [] pc \in {"returned", "exited"} -> "terminated"
      [] OTHER -> "not started"

Rank(st) ==
    CASE st = "not started" -> 0
      [] st = "listening" -> 1
      [] st = "terminated" -> 2

\* C10 as stated: the lifecycle only moves forward through not started,
\* listening, terminated; terminated is absorbing; listening ends only with
\* a fatal error, never with a clean exit; and requests are accepted and
\* handled only while listening.
C10_ServedOnlyWhileListening ==
    /\ [](exitCode # <<0>>)
    /\ [][/\ Rank(ServerState') >= Rank(ServerState)
          /\ ServerState = "terminated" => ServerState' = "terminated"
          /\ (ServerState = "listening" /\ ServerState' = "terminated")
                => startErr' # NoError
          /\ <<nDispatched, atLog, atWrite, responses>>'
                # <<nDispatched, atLog, atWrite, responses>>
                => ServerState = "listening" /\ ServerState' = "listening"]_vars

\* C10 amended: as stated, except that requests are accepted only while
\* listening, and a handler started while listening may still log and answer
\* after the fatal error, until the process has exited.
C10_LifecycleForward ==
    /\ [](exitCode # <<0>>)
    /\ [][/\ Rank(ServerState') >= Rank(ServerState)
          /\ ServerState = "terminated" => ServerState' = "terminated"
          /\ (ServerState = "listening" /\ ServerState' = "terminated")
                => startErr' # NoError
          /\ nDispatched' # nDispatched
                => ServerState = "listening" /\ ServerState' = "listening"
          /\ <<atLog, atWrite, responses>>' # <<atLog, atWrite, responses>>
                => /\ pc \in {"serving", "returned"}
                   /\ pc' = pc
                   /\ nDispatched' > 0]_vars

C10_Witness ==
    /\ pc = "exited"
    /\ exitCode = <<1>>
    /\ nResponses = MaxReq
    /\ atLog = 0
    /\ atWrite = 0

(***************************************************************************)
(* Properties of the request path under load (checked under SpecBurst)     *)
(***************************************************************************)
Quiescent == atLog = 0 /\ atWrite = 0

\* C3 as stated: when n requests have been handled, the log holds exactly n
\* health-check entries.
C3_ExactlyOneEntryPerCall ==
    Quiescent => zapLog[MsgHealth] = nDispatched

HealthCall == nHealthEvents' = nHealthEvents + 1

\* C3 amended: each call logs one health-check event, which yields at most
\* one entry, and exactly one when fewer than SamplingInitial events of that
\* message precede it in the sampler's current tick; no other step adds an
\* entry.  So n calls yield at most n entries, and exactly n while n does not
\* exceed SamplingInitial.
C3_OneEntryPerSampledCall ==
    /\ [](zapLog[MsgHealth] <= nHealthEvents)
    /\ [](nHealthEvents <= SamplingInitial => zapLog[MsgHealth] = nHealthEvents)
    /\ [][/\ HealthCall =>
                /\ zapLog'[MsgHealth] - zapLog[MsgHealth] \in {0, 1}
                /\ sampler[MsgHealth] < SamplingInitial
                      => zapLog'[MsgHealth] = zapLog[MsgHealth] + 1
          /\ ~HealthCall => zapLog'[MsgHealth] = zapLog[MsgHealth]]_vars

C3_Witness ==
    /\ Quiescent
    /\ nDispatched = SamplingInitial + 1
    /\ sampler[MsgHealth] = SamplingInitial + 1
    /\ zapLog[MsgHealth] = SamplingInitial

(***************************************************************************)
(* Properties of startup (checked under Spec)                              *)
(***************************************************************************)
\* main has called server.Start.
Started == addr # ""

\* The Configuration as Load resolves it from the environment.
Resolved ==
    /\ cfg.Port = getEnv(env, "PORT", "8080")
    /\ cfg.DBUrl = Getenv(env, "DATABASE_URL")
    /\ cfg.TwilioSID = Getenv(env, "TWILIO_SID")
    /\ cfg.TwilioToken = Getenv(env, "TWILIO_TOKEN")

\* C11: startup is ordered: the logger is constructed only after Load has
\* returned, the server is started only after the logger is constructed, and
\* whenever the server binds or has bound its socket the Configuration is
\* resolved and the address is the port that Configuration holds.
C11_StartupOrdered ==
    /\ [](logger = ZapLogger => Loaded /\ Resolved)
    /\ [](Started => logger = ZapLogger)
    /\ []((pc \in {"listen", "serving"} \/ Started)
            => Resolved /\ addr = ":" \o cfg.Port)
    /\ [][/\ logger' # logger => pc = "newlogger"
          /\ addr' # addr => pc = "start" /\ logger = ZapLogger
          /\ pc' = "serving" => pc \in {"listen", "serving"}]_vars

C11_Witness ==
    /\ pc = "serving"
    /\ env["PORT"] \in NonEmpty
    /\ addr = ":" \o env["PORT"]
    /\ logger = ZapLogger

\* zap.NewProduction() has failed: log.Fatalf has written its entry.
LoggerFailed == stdLog > 0

\* C12: when constructing the logger fails, the process logs the error and
\* exits at once with status 1; the server is never started: no address is
\* bound, no request is accepted or answered, and nothing is logged by zap.
C12_LoggerFailureFatal ==
    LoggerFailed =>
        /\ stdLog = 1
        /\ pc = "exited"
        /\ exitCode = <<1>>
        /\ logger = NilLogger
        /\ ~Started
        /\ startErr = NoError
        /\ nDispatched = 0
        /\ responses = {}
        /\ \A m \in Msgs : zapLog[m] = 0

C12_Witness ==
    /\ LoggerFailed
    /\ pc = "exited"
    /\ exitCode = <<1>>
    /\ cfg.Port \in NonEmpty

\* C13: when the server is started, the Configuration's logger handle is the
\* logger main constructed, never an unset or not yet constructed one.
C13_ConfigHoldsConstructedLogger ==
    Started => cfg.Logger = logger /\ cfg.Logger = ZapLogger

====
